---- MODULE Spec2Model ----
(***************************************************************************)
(* Model of the rotating-playlist synchroniser                             *)
(* (src/rotating-playlist-manager.py) and of the saved-track walk of the   *)
(* search script (src/advanced-search.py, get_liked_tracks).               *)
(*                                                                         *)
(* The remote music service is the environment: a newest-first list of     *)
(* saved tracks and an ordered list of playlists, read through             *)
(* offset/limit pages and written through create / replace / append calls. *)
(* Every remote call of the script is one action of a process; the pure    *)
(* work the script does between two remote calls is part of the action of  *)
(* the call that precedes it.                                              *)
(***************************************************************************)
EXTENDS Integers, Sequences, FiniteSets, TLC

VARIABLES
    now,      \* the clock read by fetch_liked_tracks: <<date-time, microsecond>>
    srvCap,   \* the largest page the remote serves, whatever limit is asked
    saved,    \* remote: the saved tracks, newest first: [id, added_at]
    pls,      \* remote: the playlists in listing order: [id, name, owner, items]
    proc,     \* per process: position and local variables of the running call
    creates   \* history: one entry per create call: did (owner, name) exist?

vars == <<now, srvCap, saved, pls, proc, creates>>

(***************************************************************************)
(* Program constants                                                       *)
(***************************************************************************)
MONTHS_BACK == 12
SavedLimit == 50
ListLimit == 50
FindAdvance == 50
ItemsLimit == 100
Cap == 100
LikedLimit == 50      \* advanced-search.py, get_liked_tracks: limit = 50

PLURAL == IF MONTHS_BACK > 1 THEN "s" ELSE ""
\* f"Rotation: Last {MONTHS_BACK} Month{PLURAL}" with MONTHS_BACK = 12
ROTATION_NAME == IF PLURAL = "s" THEN "Rotation: Last 12 Months"
                                 ELSE "Rotation: Last 12 Month"

(***************************************************************************)
(* Bounds of the model                                                     *)
(***************************************************************************)
MaxRuns == 2
MaxTracks == 2
MaxId == 2
MaxPls == 2

(***************************************************************************)
(* Sequence helpers                                                        *)
(***************************************************************************)
Min(a, b) == IF a < b THEN a ELSE b
Max(a, b) == IF a > b THEN a ELSE b
Range(s) == {s[i] : i \in 1..Len(s)}
\* Python's s[a:b] for 0 <= a, 0 <= b
Slice(s, a, b) == SubSeq(s, a + 1, Min(b, Len(s)))
CeilDiv(a, b) == (a + b - 1) \div b
SeqsUpTo(S, n) == UNION {[1..k -> S] : k \in 0..n}

(***************************************************************************)
(* Timestamps.  An added_at string "%Y-%m-%dT%H:%M:%SZ" is the tuple of    *)
(* its six numeric fields; strptime rejects fields out of range.           *)
(***************************************************************************)
IsLeap(y) == (y % 4 = 0 /\ y % 100 # 0) \/ y % 400 = 0

DaysInMonth(y, m) ==
    IF m = 2 THEN (IF IsLeap(y) THEN 29 ELSE 28)
    ELSE IF m \in {4, 6, 9, 11} THEN 30 ELSE 31

\* does datetime.strptime(s, "%Y-%m-%dT%H:%M:%SZ") succeed?
WellFormed(s) ==
    /\ s[1] \in 1..9999
    /\ s[2] \in 1..12
    /\ s[3] \in 1..DaysInMonth(s[1], s[2])
    /\ s[4] \in 0..23
    /\ s[5] \in 0..59
    /\ s[6] \in 0..59

\* days since 1970-01-01 of a proleptic Gregorian date
DaysFromCivil(y, m, d) ==
    LET yy  == IF m <= 2 THEN y - 1 ELSE y
        era == yy \div 400
        yoe == yy - era * 400
        mp  == IF m > 2 THEN m - 3 ELSE m + 9
        doy == (153 * mp + 2) \div 5 + d - 1
        doe == yoe * 365 + yoe \div 4 - yoe \div 100 + doy
    IN  era * 146097 + doe - 719468

\* strptime(...).replace(tzinfo=UTC) as seconds since the epoch
ParseAddedAt(s) ==
    DaysFromCivil(s[1], s[2], s[3]) * 86400 + s[4] * 3600 + s[5] * 60 + s[6]

\* cutoff = datetime.now(UTC) - timedelta(days=months*30): <<seconds, microsecond>>
CutoffOf(clock, months) ==
    <<ParseAddedAt(clock[1]) - months * 30 * 86400, clock[2]>>

\* added_at >= cutoff, added_at having no microseconds
NotBeforeStrict(t, cutoff) == t > cutoff[1]
NotBefore(t, cutoff) == t > cutoff[1] \/ (t = cutoff[1] /\ 0 >= cutoff[2])

(***************************************************************************)
(* The remote service                                                      *)
(***************************************************************************)
Me == "me"
Them == "them"
NoTrack == 0        \* an item whose "track" is null (a removed or local item)
NoPlaylist == 0     \* None

\* number of items of the page at `offset` of a listing of `total` items
PageLen(total, offset, limit) ==
    Max(0, Min(Min(limit, srvCap), total - offset))

\* resp["items"] of a listing call
PageItems(list, offset, limit) ==
    SubSeq(list, offset + 1, offset + PageLen(Len(list), offset, limit))

\* a listing whose every page names a next page
PageNextAlways(list, offset, limit) == TRUE

\* resp["next"] is not None
PageNext(list, offset, limit) ==
    offset + PageLen(Len(list), offset, limit) < Len(list)

PlIndex(id) == CHOOSE k \in 1..Len(pls) : pls[k].id = id
PlItems(id) == pls[PlIndex(id)].items
PlIds == {pls[k].id : k \in 1..Len(pls)}
FreshId == 1 + Max(0, IF PlIds = {} THEN 0
                      ELSE CHOOSE m \in PlIds : \A n \in PlIds : n <= m)
Exists(owner, name) ==
    \E k \in 1..Len(pls) : pls[k].name = name /\ pls[k].owner = owner
Named(owner, name) ==
    {k \in 1..Len(pls) : pls[k].name = name /\ pls[k].owner = owner}

\* the track ids of a list of playlist items, null tracks left out
TrackIdsOf(items) == SelectSeq(items, LAMBDA x : x # NoTrack)

(***************************************************************************)
(* Processes                                                               *)
(***************************************************************************)
Procs == DOMAIN proc

\* the positions at which a process is about to issue a remote call
CallLabels == {"whoami", "fetch", "list", "find", "create", "read",
               "replace", "add", "liked"}

\* the loops that walk a remote listing page by page, by the position of
\* their page request
Walks == {"fetch", "list", "find", "read", "liked"}

\* start_date=None, end_date=None; a date is <<seconds, microsecond>>
NoDate == <<>>

FirstLabel(entry) ==
    CASE entry = "main"   -> "whoami"
      [] entry = "fetch"  -> "fetch"
      [] entry = "find"   -> "find"
      [] entry = "update" -> "read"
      [] entry = "liked"  -> "liked"

\* the locals of a call that has not started; argPl and argNew are the
\* arguments of a direct update_playlist_if_needed call
Fresh(entry, argPl, argNew) ==
    [pc |-> FirstLabel(entry), entry |-> entry,
     argPl |-> argPl, argNew |-> argNew,
     offset |-> 0, results |-> <<>>, playlists |-> <<>>,
     target |-> IF entry = "update" THEN argPl ELSE NoPlaylist,
     existing |-> <<>>,
     new |-> IF entry = "update" THEN argNew ELSE <<>>,
     i |-> 0, outcome |-> "none", calls |-> <<>>,
     reqs |-> 0, seenOld |-> FALSE, late |-> FALSE, glitched |-> FALSE,
     before |-> IF entry = "update" THEN PlItems(argPl) ELSE <<>>,
     ret |-> NoPlaylist, start |-> pls, runs |-> 1, prev |-> <<>>,
     edits |-> <<>>,
     seen |-> [w \in Walks |-> <<>>],
     start_date |-> NoDate, end_date |-> NoDate]

Set(p, r) == proc' = [proc EXCEPT ![p] = r]

Done(r, outcome) == [r EXCEPT !.pc = "done", !.outcome = outcome]
Raise(r) == [r EXCEPT !.pc = "failed", !.outcome = "failed"]
\* strptime raises ValueError, which nothing catches
RaiseValueError(r) == [r EXCEPT !.pc = "failed", !.outcome = "valueerror"]

\* history: the loop `walk` has gone through the first n items of the page
\* at `offset`; seen[walk] lists the places of the listing it has examined
Saw(r, walk, offset, n) ==
    [r EXCEPT !.seen[walk] = @ \o [k \in 1..n |-> offset + k]]

\* what a listing call hands to the script about one playlist
PlInfo(pl) == [id |-> pl.id, name |-> pl.name, owner |-> pl.owner]
PlInfos(list) == [k \in 1..Len(list) |-> PlInfo(list[k])]

\* update_playlist_if_needed(sp, id, new) is entered; `items` is what the
\* playlist holds at that moment (history, for the frame claims)
EnterUpdate(r, id, new, items) ==
    [r EXCEPT !.pc = "read", !.offset = 0, !.existing = <<>>,
              !.target = id, !.new = new, !.before = items, !.i = 0]

(***************************************************************************)
(* main, line 100: sp.current_user()                                       *)
(***************************************************************************)
WhoAmI(p) ==
    /\ proc[p].pc = "whoami"
    /\ Set(p, [proc[p] EXCEPT !.pc = "fetch", !.offset = 0, !.results = <<>>])
    /\ UNCHANGED <<now, srvCap, saved, pls, creates>>

(***************************************************************************)
(* fetch_liked_tracks: one page request and the loop over its items        *)
(***************************************************************************)
\* the test of line 35
InWindow(item, cutoff) == NotBefore(ParseAddedAt(item.added_at), cutoff)

\* a reader that never stops at an older entry (it stops at unparsable ones)
FirstStopUnparsableOnly(items, cutoff) ==
    LET B == {j \in 1..Len(items) : ~WellFormed(items[j].added_at)}
    IN  IF B = {} THEN 0 ELSE CHOOSE j \in B : \A k \in B : j <= k

\* a reader that passes over unparsable entries and stops at older ones only
FirstStopOldOnly(items, cutoff) ==
    LET B == {j \in 1..Len(items) :
                /\ WellFormed(items[j].added_at)
                /\ ~InWindow(items[j], cutoff)}
    IN  IF B = {} THEN 0 ELSE CHOOSE j \in B : \A k \in B : j <= k

\* index of the first item of the page at which the for loop stops (an
\* unparsable added_at raises, an older entry returns); 0 when it runs through
FirstStop(items, cutoff) ==
    LET B == {j \in 1..Len(items) :
                \/ ~WellFormed(items[j].added_at)
                \/ ~InWindow(items[j], cutoff)}
    IN  IF B = {} THEN 0 ELSE CHOOSE j \in B : \A k \in B : j <= k

\* the ids of a page taken last to first
IdsReversed(items) == [k \in 1..Len(items) |-> items[Len(items) + 1 - k].id]

IdsOf(items) == [k \in 1..Len(items) |-> items[k].id]

\* return results (lines 38 and 40): back in main, get_all_user_playlists
FetchReturn(r) ==
    IF r.entry = "fetch" THEN Done(r, "returned")
    ELSE [r EXCEPT !.pc = "list", !.offset = 0, !.playlists = <<>>]

FetchStep(r, items, cutoff) ==
    LET j  == FirstStop(items, cutoff)
        r1 == [r EXCEPT !.reqs = @ + 1, !.late = @ \/ r.seenOld]
    IN  IF items = <<>> THEN FetchReturn(r1)
        ELSE IF j = 0
        THEN [Saw(r1, "fetch", r.offset, Len(items)) EXCEPT
                        !.results = @ \o IdsOf(items),
                        !.offset = @ + Len(items)]
        ELSE LET r2 == [Saw(r1, "fetch", r.offset, j) EXCEPT
                          !.results = @ \o IdsOf(SubSeq(items, 1, j - 1))]
             IN  IF ~WellFormed(items[j].added_at) THEN RaiseValueError(r2)
                 ELSE FetchReturn([r2 EXCEPT !.seenOld = TRUE])

FetchPage(p) ==
    /\ proc[p].pc = "fetch"
    /\ Set(p, FetchStep(proc[p],
                        PageItems(saved, proc[p].offset, SavedLimit),
                        CutoffOf(now, MONTHS_BACK)))
    /\ UNCHANGED <<now, srvCap, saved, pls, creates>>

(***************************************************************************)
(* get_all_user_playlists, and main's lines 109-132 once it has returned   *)
(***************************************************************************)
\* index of the first playlist of the list main takes as its target, 0 if none
MainMatch(playlists) ==
    LET M == {k \in 1..Len(playlists) : playlists[k].name = ROTATION_NAME}
    IN  IF M = {} THEN 0 ELSE CHOOSE k \in M : \A n \in M : k <= n

\* main without the guard of lines 109-114
AfterListingUnguarded(r) ==
    LET k == MainMatch(r.playlists)
    IN  IF k = 0 THEN [r EXCEPT !.pc = "find", !.offset = 0]
        ELSE EnterUpdate(r, r.playlists[k].id, r.results,
                         PlItems(r.playlists[k].id))

AfterListing(r) ==
    IF Len(r.playlists) < 1 THEN Done(r, "skipped")
    ELSE LET k == MainMatch(r.playlists)
         IN  IF k = 0 THEN [r EXCEPT !.pc = "find", !.offset = 0]
             ELSE EnterUpdate(r, r.playlists[k].id, r.results,
                              PlItems(r.playlists[k].id))

ListStep(r, items) ==
    IF items = <<>> THEN AfterListing(r)
    ELSE [Saw(r, "list", r.offset, Len(items)) EXCEPT
            !.playlists = @ \o items, !.offset = @ + Len(items)]

\* can the listing call at `offset` fail without raising?  Its answer then
\* has no items and no next; past the end that is the proper answer
CanGlitch(offset) == PageItems(pls, offset, ListLimit) # <<>>

\* sp.current_user_playlists(limit=50, offset): the page, or, when the call
\* fails without raising (`glitch`), a response with no items and no next
ListPage(p) ==
    /\ proc[p].pc = "list"
    /\ \E glitch \in {FALSE, CanGlitch(proc[p].offset)} :
         Set(p, ListStep([proc[p] EXCEPT !.glitched = @ \/ glitch],
                         IF glitch THEN <<>>
                         ELSE PlInfos(PageItems(pls, proc[p].offset, ListLimit))))
    /\ UNCHANGED <<now, srvCap, saved, pls, creates>>

(***************************************************************************)
(* find_or_create_playlist(sp, user_id, name)                              *)
(***************************************************************************)
\* the two arguments taken for one another: nothing ever matches
FindMatchSwapped(items, user_id, name) ==
    LET M == {k \in 1..Len(items) :
                items[k].name = user_id /\ items[k].owner = name}
    IN  IF M = {} THEN 0 ELSE CHOOSE k \in M : \A n \in M : k <= n

FindMatch(items, user_id, name) ==
    LET M == {k \in 1..Len(items) :
                items[k].name = name /\ items[k].owner = user_id}
    IN  IF M = {} THEN 0 ELSE CHOOSE k \in M : \A n \in M : k <= n

\* return of find_or_create_playlist: main goes on to update_playlist_if_needed
FindReturn(r, id, items) ==
    IF r.entry = "find" THEN Done([r EXCEPT !.ret = id], "returned")
    ELSE EnterUpdate([r EXCEPT !.ret = id], id, r.results, items)

FindStep(r, items, hasNext) ==
    LET k == FindMatch(items, Me, ROTATION_NAME)
        s == Saw(r, "find", r.offset, IF k # 0 THEN k ELSE Len(items))
    IN  IF k # 0 THEN FindReturn(s, items[k].id, PlItems(items[k].id))
        ELSE IF ~hasNext THEN [s EXCEPT !.pc = "create"]
        ELSE [s EXCEPT !.offset = @ + FindAdvance]

FindPage(p) ==
    /\ proc[p].pc = "find"
    /\ \E glitch \in {FALSE, CanGlitch(proc[p].offset)} :
         Set(p, FindStep([proc[p] EXCEPT !.glitched = @ \/ glitch],
                         IF glitch THEN <<>>
                         ELSE PlInfos(PageItems(pls, proc[p].offset, ListLimit)),
                         ~glitch /\ PageNext(pls, proc[p].offset, ListLimit)))
    /\ UNCHANGED <<now, srvCap, saved, pls, creates>>

\* a create call that nothing follows: the loop is never left
AfterCreateNoReturn(r, id) == [r EXCEPT !.ret = id]

\* return new_pl["id"] (line 70)
AfterCreate(r, id) == FindReturn(r, id, <<>>)

\* sp.user_playlist_create(user=user_id, name=name, public=False): the new
\* playlist is empty and listed first
Create(p) ==
    /\ proc[p].pc = "create"
    /\ LET id == FreshId
       IN  /\ pls' = <<[id |-> id, name |-> ROTATION_NAME, owner |-> Me,
                        items |-> <<>>]>> \o pls
           /\ creates' = Append(creates, Exists(Me, ROTATION_NAME))
           /\ Set(p, AfterCreate([proc[p] EXCEPT
                                    !.calls = Append(@, [op |-> "create", pl |-> id,
                                                         ids |-> <<>>])],
                                 id))
    /\ UNCHANGED <<now, srvCap, saved>>

(***************************************************************************)
(* get_playlist_track_ids and update_playlist_if_needed                    *)
(***************************************************************************)
\* a comparison of the two lengths instead of the two sets
SameLength(existing_ids, new_track_ids) == Len(existing_ids) = Len(new_track_ids)

\* a comparison of the two lists instead of the two sets
SameList(existing_ids, new_track_ids) == existing_ids = new_track_ids

\* a comparison of the first ids of the two lists
SameHead(existing_ids, new_track_ids) ==
    IF existing_ids = <<>> \/ new_track_ids = <<>>
    THEN existing_ids = new_track_ids
    ELSE existing_ids[1] = new_track_ids[1]

\* every desired id is in the playlist, which may hold others
Covers(existing_ids, new_track_ids) ==
    Range(new_track_ids) \subseteq Range(existing_ids)

\* the test of line 87
SameSet(existing_ids, new_track_ids) == Range(existing_ids) = Range(new_track_ids)

ReadStep(r, items) ==
    IF items = <<>>
    THEN IF SameSet(r.existing, r.new) THEN Done(r, "uptodate")
         ELSE [r EXCEPT !.pc = "replace"]
    ELSE [Saw(r, "read", r.offset, Len(items)) EXCEPT
            !.existing = @ \o TrackIdsOf(items),
            !.offset = @ + Len(items)]

\* sp.playlist_items(playlist_id, limit=100, offset=offset)
ReadPage(p) ==
    /\ proc[p].pc = "read"
    /\ Set(p, ReadStep(proc[p],
                       PageItems(PlItems(proc[p].target), proc[p].offset,
                                 ItemsLimit)))
    /\ UNCHANGED <<now, srvCap, saved, pls, creates>>

\* slices that lose the last item of a full chunk, or start over
FirstChunkShort(new) == Slice(new, 0, Cap - 1)
ChunkFromStart(new, i) == Slice(new, 0, Cap)

\* a slice that starts one item early: new_track_ids[i-1:i+100]
ChunkOverlapping(new, i) == Slice(new, i - 1, i + Cap)

\* new_track_ids[:100] and new_track_ids[i:i+100]
FirstChunk(new) == Slice(new, 0, Cap)
Chunk(new, i) == Slice(new, i, i + Cap)

\* a loop that is entered once more when i has come to the length of the list
AddLoopInclusive(r, i) ==
    IF i <= Len(r.new) THEN [r EXCEPT !.pc = "add", !.i = i]
    ELSE Done([r EXCEPT !.i = i], "updated")

\* the for loop of line 93, range(100, len(new_track_ids), 100), entered at i
AddLoop(r, i) ==
    IF i < Len(r.new) THEN [r EXCEPT !.pc = "add", !.i = i]
    ELSE Done([r EXCEPT !.i = i], "updated")

\* a replace call that keeps what the playlist holds and appends to it
ReplaceAppending(p) ==
    /\ proc[p].pc = "replace"
    /\ LET r  == proc[p]
           k  == PlIndex(r.target)
           ch == FirstChunk(r.new)
       IN  /\ pls' = [pls EXCEPT ![k].items = @ \o ch]
           /\ Set(p, AddLoop([r EXCEPT !.calls = Append(@, [op |-> "replace",
                                                  pl |-> r.target, ids |-> ch])],
                             Cap))
    /\ UNCHANGED <<now, srvCap, saved, creates>>

\* sp.playlist_replace_items(playlist_id, new_track_ids[:100])
Replace(p) ==
    /\ proc[p].pc = "replace"
    /\ LET r  == proc[p]
           k  == PlIndex(r.target)
           ch == FirstChunk(r.new)
       IN  /\ pls' = [pls EXCEPT ![k].items = ch]
           /\ Set(p, AddLoop([r EXCEPT !.calls = Append(@, [op |-> "replace",
                                                  pl |-> r.target, ids |-> ch])],
                             Cap))
    /\ UNCHANGED <<now, srvCap, saved, creates>>

\* sp.playlist_add_items(playlist_id, new_track_ids[i:i+100])
Add(p) ==
    /\ proc[p].pc = "add"
    /\ LET r  == proc[p]
           k  == PlIndex(r.target)
           ch == Chunk(r.new, r.i)
       IN  /\ pls' = [pls EXCEPT ![k].items = @ \o ch]
           /\ Set(p, AddLoop([r EXCEPT !.calls = Append(@, [op |-> "add",
                                                  pl |-> r.target, ids |-> ch])],
                             r.i + Cap))
    /\ UNCHANGED <<now, srvCap, saved, creates>>

(***************************************************************************)
(* advanced-search.py: get_liked_tracks(start_date, end_date)              *)
(***************************************************************************)
\* start_date and added_at < start_date (lines 102 and 105)
BeforeStart(t, start_date) == start_date # NoDate /\ ~NotBefore(t, start_date)
\* end_date and added_at > end_date (line 107)
AfterEnd(t, end_date) == end_date # NoDate /\ t > end_date[1]

\* index of the first item of the batch at which the for loop stops (an
\* unparsable added_at raises, an entry before start_date returns); 0 when
\* it runs through
LikedStop(items, start_date) ==
    LET B == {j \in 1..Len(items) :
                \/ ~WellFormed(items[j].added_at)
                \/ BeforeStart(ParseAddedAt(items[j].added_at), start_date)}
    IN  IF B = {} THEN 0 ELSE CHOOSE j \in B : \A k \in B : j <= k

\* the items the loop appends: those not after end_date
LikedKept(items, end_date) ==
    SelectSeq(items, LAMBDA x : ~AfterEnd(ParseAddedAt(x.added_at), end_date))

LikedStep(r, items, hasNext) ==
    LET j == LikedStop(items, r.start_date)
    IN  IF items = <<>> THEN Done(r, "returned")
        ELSE IF j = 0
        THEN LET r1 == [Saw(r, "liked", r.offset, Len(items)) EXCEPT
                          !.results = @ \o LikedKept(items, r.end_date)]
             IN  IF ~hasNext THEN Done(r1, "returned")
                 ELSE [r1 EXCEPT !.offset = @ + LikedLimit]
        ELSE LET r2 == [Saw(r, "liked", r.offset, j) EXCEPT
                          !.results = @ \o LikedKept(SubSeq(items, 1, j - 1),
                                                     r.end_date)]
             IN  IF ~WellFormed(items[j].added_at) THEN RaiseValueError(r2)
                 ELSE Done([r2 EXCEPT !.seenOld = TRUE], "returned")

\* sp.current_user_saved_tracks(limit=limit, offset=offset) and the loop
\* over the batch
LikedPage(p) ==
    /\ proc[p].pc = "liked"
    /\ Set(p, LikedStep([proc[p] EXCEPT !.reqs = @ + 1],
                        PageItems(saved, proc[p].offset, LikedLimit),
                        PageNext(saved, proc[p].offset, LikedLimit)))
    /\ UNCHANGED <<now, srvCap, saved, pls, creates>>

(***************************************************************************)
(* A remote call raises: nothing catches it, the run ends there            *)
(***************************************************************************)
Fail(p) ==
    /\ proc[p].pc \in CallLabels
    /\ Set(p, Raise(proc[p]))
    /\ UNCHANGED <<now, srvCap, saved, pls, creates>>

(***************************************************************************)
(* The script is run again (the same call is made again)                   *)
(***************************************************************************)
\* what is remembered of a call that has ended
Summary(r) == [outcome |-> r.outcome, ret |-> r.ret, ncalls |-> Len(r.calls),
               glitched |-> r.glitched, edits |-> r.edits]

Rerun(p) ==
    /\ proc[p].pc \in {"done", "failed"}
    /\ proc[p].runs < MaxRuns
    /\ LET r == proc[p]
       IN  Set(p, [Fresh(r.entry, r.argPl, r.argNew) EXCEPT
                     !.runs = r.runs + 1,
                     !.prev = Append(r.prev, Summary(r))])
    /\ UNCHANGED <<now, srvCap, saved, pls, creates>>

(***************************************************************************)
(* Inputs: clocks, added_at strings, saved-track listings, playlists       *)
(***************************************************************************)
NowStamp == <<2026, 11, 4, 12, 0, 0>>
Clocks == {<<NowStamp, 0>>, <<NowStamp, 500000>>}

Recent == <<2026, 10, 1, 8, 30, 0>>
AtCutoff == <<2025, 11, 9, 12, 0, 0>>     \* NowStamp - 360 days, to the second
JustOld == <<2025, 11, 9, 11, 59, 59>>
Old == <<2024, 2, 29, 23, 59, 59>>
BadStamp == <<2025, 2, 30, 0, 0, 0>>      \* no such day: strptime raises

\* the remote lists saved tracks newest first (unparsable entries anywhere)
NewestFirst(s) ==
    \A a, b \in 1..Len(s) :
        (a < b /\ WellFormed(s[a].added_at) /\ WellFormed(s[b].added_at))
            => ParseAddedAt(s[a].added_at) >= ParseAddedAt(s[b].added_at)

SavedLists(stamps, n) ==
    {s \in SeqsUpTo([id : 1..MaxId, added_at : stamps], n) : NewestFirst(s)}

\* n saved tracks with ids 1..n, the first k of them recent, the others old
BigSaved(n, k) ==
    [a \in 1..n |-> [id |-> a, added_at |-> IF a <= k THEN Recent ELSE Old]]

ServerFull == 100    \* the remote serves every page in full

(***************************************************************************)
(* fetch_liked_tracks called on its own                                    *)
(***************************************************************************)
InitFetch ==
    /\ now \in Clocks
    /\ \/ /\ srvCap \in {1, 2, ServerFull}
          /\ saved \in SavedLists({Recent, AtCutoff, JustOld, Old, BadStamp},
                                  MaxTracks)
       \/ /\ srvCap \in {30, ServerFull}
          /\ saved \in {BigSaved(500, 30), BigSaved(50, 50), BigSaved(51, 50),
                        BigSaved(100, 100), BigSaved(120, 101)}
    /\ pls = <<>>
    /\ creates = <<>>
    /\ proc = [p \in {1} |-> Fresh("fetch", NoPlaylist, <<>>)]

NextFetch ==
    \/ \E p \in Procs : FetchPage(p)
    \/ \E p \in Procs : Fail(p)

SpecFetch == InitFetch /\ [][NextFetch]_vars

(***************************************************************************)
(* update_playlist_if_needed called on its own, then called again with the *)
(* same arguments                                                          *)
(***************************************************************************)
Iota(n) == [a \in 1..n |-> a]
Reversed(s) == [a \in 1..Len(s) |-> s[Len(s) + 1 - a]]
\* n ids among 1..m, each several times
Cycled(n, m) == [a \in 1..n |-> (a % m) + 1]

OnePlaylist(items) ==
    << [id |-> 1, name |-> ROTATION_NAME, owner |-> Me, items |-> items] >>

InitUpdate ==
    /\ now \in {<<NowStamp, 0>>}
    /\ saved = <<>>
    /\ creates = <<>>
    /\ \E new \in SeqsUpTo(1..MaxId, MaxTracks) \cup
                  {Iota(99), Iota(100), Iota(101), Iota(200), Iota(250),
                   Cycled(150, 7)} :
         /\ \/ /\ Len(new) <= MaxTracks
               /\ srvCap \in {1, ServerFull}
               /\ \E items \in SeqsUpTo(0..MaxId, MaxTracks) :
                      pls = OnePlaylist(items)
            \/ /\ Len(new) > MaxTracks
               /\ srvCap \in {30, ServerFull}
               /\ \E items \in {<<>>, new, Reversed(new), Iota(100),
                                Iota(7), <<251>>} :
                      pls = OnePlaylist(items)
         /\ proc = [p \in {1} |-> Fresh("update", 1, new)]

NextUpdate ==
    \/ \E p \in Procs : ReadPage(p)
    \/ \E p \in Procs : Replace(p)
    \/ \E p \in Procs : Add(p)
    \/ \E p \in Procs : Fail(p)
    \/ \E p \in Procs : Rerun(p)

SpecUpdate == InitUpdate /\ [][NextUpdate]_vars

(***************************************************************************)
(* update_playlist_if_needed called and called again while someone else    *)
(* edits the playlist: one edit, landing before any of the remote calls of *)
(* a call or after its end                                                 *)
(***************************************************************************)
\* what one edit can make of the items of a playlist: a track added (one of
\* the desired ids or another), the first item removed, the order reversed,
\* the first item duplicated
Edits(items) ==
    ({Append(items, x) : x \in 1..(MaxId + 1)}
       \cup (IF items = <<>> THEN {}
             ELSE {Tail(items), Reversed(items), <<items[1]>> \o items}))
    \ {items}

\* edits records the position of the call at which the edit landed
ExternalEdit(p) ==
    /\ proc[p].entry = "update"
    /\ proc[p].edits = <<>>
    /\ \A k \in 1..Len(proc[p].prev) : proc[p].prev[k].edits = <<>>
    /\ \E e \in Edits(PlItems(proc[p].target)) :
          pls' = [pls EXCEPT ![PlIndex(proc[p].target)].items = e]
    /\ Set(p, [proc[p] EXCEPT !.edits = Append(@, proc[p].pc)])
    /\ UNCHANGED <<now, srvCap, saved, creates>>

InitEdit ==
    /\ now \in {<<NowStamp, 0>>}
    /\ saved = <<>>
    /\ creates = <<>>
    /\ \E new \in SeqsUpTo(1..MaxId, 2) \cup {Iota(101)} :
         /\ \/ /\ Len(new) <= 2
               /\ srvCap \in {1, ServerFull}
               /\ \E items \in {<<>>, new, <<1>>} : pls = OnePlaylist(items)
            \/ /\ Len(new) > 2
               /\ srvCap = ServerFull
               /\ \E items \in {<<>>, Iota(7)} : pls = OnePlaylist(items)
         /\ proc = [p \in {1} |-> Fresh("update", 1, new)]

NextEdit ==
    \/ \E p \in Procs : ReadPage(p)
    \/ \E p \in Procs : Replace(p)
    \/ \E p \in Procs : Add(p)
    \/ \E p \in Procs : Fail(p)
    \/ \E p \in Procs : Rerun(p)
    \/ \E p \in Procs : ExternalEdit(p)

SpecEdit == InitEdit /\ [][NextEdit]_vars

(***************************************************************************)
(* Playlists of an account                                                 *)
(***************************************************************************)
LowerName == "rotation: last 12 months"
Kinds == {[name |-> "Other", owner |-> Me],
          [name |-> ROTATION_NAME, owner |-> Me],
          [name |-> ROTATION_NAME, owner |-> Them],
          [name |-> LowerName, owner |-> Me]}

\* playlists of the given kinds, with ids 1, 2, ...; those with the target
\* name hold `items`
MkPls(kinds, items) ==
    [k \in 1..Len(kinds) |->
        [id |-> k, name |-> kinds[k].name, owner |-> kinds[k].owner,
         items |-> IF kinds[k].name = ROTATION_NAME THEN items ELSE <<>>]]

\* n playlists of the owner, the t-th (none if t = 0) being the target
BigPls(n, t, items) ==
    [k \in 1..n |->
        [id |-> k, name |-> IF k = t THEN ROTATION_NAME ELSE "Other",
         owner |-> Me, items |-> IF k = t THEN items ELSE <<>>]]

(***************************************************************************)
(* find_or_create_playlist called on its own, then called again            *)
(***************************************************************************)
InitLocate ==
    /\ now \in {<<NowStamp, 0>>}
    /\ saved = <<>>
    /\ creates = <<>>
    /\ \/ /\ srvCap \in {1, 2, ServerFull}
          /\ \E kinds \in SeqsUpTo(Kinds, MaxPls) : pls = MkPls(kinds, <<>>)
       \/ /\ srvCap \in {30, ServerFull}
          /\ \E n \in {50, 51, 120} : \E t \in {0, 1, 50, 51, 120} :
                t <= n /\ pls = BigPls(n, t, <<>>)
    /\ proc = [p \in {1} |-> Fresh("find", NoPlaylist, <<>>)]

NextLocate ==
    \/ \E p \in Procs : FindPage(p)
    \/ \E p \in Procs : Create(p)
    \/ \E p \in Procs : Fail(p)
    \/ \E p \in Procs : Rerun(p)

SpecLocate == InitLocate /\ [][NextLocate]_vars

(***************************************************************************)
(* The script: main, run and run again, one run at a time                  *)
(***************************************************************************)
InitRemote ==
    /\ now \in {<<NowStamp, 0>>}
    /\ creates = <<>>
    /\ \/ /\ srvCap \in {1, ServerFull}
          /\ saved \in SavedLists({Recent, JustOld}, 1) \cup
                       {<<[id |-> 1, added_at |-> Recent],
                          [id |-> 2, added_at |-> AtCutoff],
                          [id |-> 1, added_at |-> Old]>>}
          /\ \E kinds \in SeqsUpTo(Kinds, MaxPls) :
             \E items \in {<<>>, <<2, 1>>, <<NoTrack, 1>>} :
                pls = MkPls(kinds, items)
       \/ /\ srvCap \in {30, ServerFull}
          /\ saved \in {BigSaved(250, 250), BigSaved(120, 101)}
          /\ pls \in {BigPls(51, 51, <<>>), BigPls(51, 0, <<>>),
                      BigPls(51, 51, Iota(250)), BigPls(1, 1, Iota(100))}

Init ==
    /\ InitRemote
    /\ proc = [p \in {1} |-> Fresh("main", NoPlaylist, <<>>)]

Next ==
    \/ \E p \in Procs : WhoAmI(p)
    \/ \E p \in Procs : FetchPage(p)
    \/ \E p \in Procs : ListPage(p)
    \/ \E p \in Procs : FindPage(p)
    \/ \E p \in Procs : Create(p)
    \/ \E p \in Procs : ReadPage(p)
    \/ \E p \in Procs : Replace(p)
    \/ \E p \in Procs : Add(p)
    \/ \E p \in Procs : Fail(p)
    \/ \E p \in Procs : Rerun(p)

Spec == Init /\ [][Next]_vars

(***************************************************************************)
(* Two runs of the script at once, interleaved call by call, on an account *)
(* that has playlists but not the target                                   *)
(***************************************************************************)
OtherKinds == Kinds \ {[name |-> ROTATION_NAME, owner |-> Me]}

InitConc ==
    /\ now \in {<<NowStamp, 0>>}
    /\ creates = <<>>
    /\ \/ /\ srvCap \in {1, ServerFull}
          /\ saved \in SavedLists({Recent, JustOld}, 1)
          /\ \E kinds \in SeqsUpTo(OtherKinds, MaxPls) :
                /\ kinds # <<>>
                /\ pls = MkPls(kinds, <<1>>)
       \/ /\ srvCap = ServerFull
          /\ saved = BigSaved(101, 101)
          /\ pls = BigPls(51, 0, <<>>)
    /\ proc = [p \in {1, 2} |-> Fresh("main", NoPlaylist, <<>>)]

NextConc ==
    \/ \E p \in Procs : WhoAmI(p)
    \/ \E p \in Procs : FetchPage(p)
    \/ \E p \in Procs : ListPage(p)
    \/ \E p \in Procs : FindPage(p)
    \/ \E p \in Procs : Create(p)
    \/ \E p \in Procs : ReadPage(p)
    \/ \E p \in Procs : Replace(p)
    \/ \E p \in Procs : Add(p)
    \/ \E p \in Procs : Fail(p)

SpecConc == InitConc /\ [][NextConc]_vars

(***************************************************************************)
(* One run of the script, from its first call to its end.  The script is   *)
(* sequential and nothing in it waits: once started it takes its next step *)
(* (weak fairness of the steps of the run).                                *)
(***************************************************************************)
Newer == <<2026, 10, 20, 9, 0, 0>>

\* three saved tracks in the window (A = 3, B = 1, C = 2), then an older one
ThreeInWindow ==
    <<[id |-> 3, added_at |-> Newer], [id |-> 1, added_at |-> Recent],
      [id |-> 2, added_at |-> AtCutoff], [id |-> 4, added_at |-> Old]>>

\* saved tracks with ids 1, 2, ... and the given added_at strings
Stamped(stamps) == [k \in 1..Len(stamps) |-> [id |-> k, added_at |-> stamps[k]]]

StampedLists(stamps, n) ==
    {s \in {Stamped(q) : q \in SeqsUpTo(stamps, n)} : NewestFirst(s)}

InitRun ==
    /\ now \in {<<NowStamp, 0>>}
    /\ creates = <<>>
    /\ \/ /\ srvCap \in {1, ServerFull}
          /\ saved \in {ThreeInWindow} \cup
                       StampedLists({Recent, BadStamp}, MaxTracks)
          /\ \E kinds \in SeqsUpTo(Kinds, MaxPls) :
                pls = MkPls(kinds, <<2, 1>>)
       \/ /\ srvCap \in {30, ServerFull}
          /\ saved \in {BigSaved(120, 101)}
          /\ pls \in {BigPls(51, 0, <<>>), BigPls(1, 1, Iota(100))}
    /\ proc = [p \in {1} |-> Fresh("main", NoPlaylist, <<>>)]

NextRun ==
    \/ \E p \in Procs : WhoAmI(p)
    \/ \E p \in Procs : FetchPage(p)
    \/ \E p \in Procs : ListPage(p)
    \/ \E p \in Procs : FindPage(p)
    \/ \E p \in Procs : Create(p)
    \/ \E p \in Procs : ReadPage(p)
    \/ \E p \in Procs : Replace(p)
    \/ \E p \in Procs : Add(p)
    \/ \E p \in Procs : Fail(p)

SpecRun == InitRun /\ [][NextRun]_vars /\ WF_vars(NextRun)

(***************************************************************************)
(* The loops that walk a listing, on a remote that may serve short pages:  *)
(* a run of main (fetch_liked_tracks, get_all_user_playlists,              *)
(* find_or_create_playlist, get_playlist_track_ids), a call of             *)
(* find_or_create_playlist, a call of get_liked_tracks                     *)
(***************************************************************************)
\* --added-start / --recently-added and --added-end of the search script
StartDates == {NoDate, CutoffOf(<<NowStamp, 500000>>, MONTHS_BACK)}
EndDates == {NoDate, <<ParseAddedAt(Recent), 0>>}

InitWalk ==
    /\ now \in {<<NowStamp, 0>>}
    /\ creates = <<>>
    /\ \/ /\ srvCap \in {1, 2, ServerFull}
          /\ saved \in StampedLists({Newer, Recent, JustOld}, MaxTracks)
          /\ \E kinds \in SeqsUpTo(Kinds, MaxPls) : pls = MkPls(kinds, <<2, 1>>)
       \/ /\ srvCap \in {30, ServerFull}
          /\ saved \in {BigSaved(120, 101)}
          /\ pls \in {BigPls(120, 120, Iota(250)), BigPls(120, 0, <<>>)}
    /\ \/ proc = [p \in {1} |-> Fresh("main", NoPlaylist, <<>>)]
       \/ proc = [p \in {1} |-> Fresh("find", NoPlaylist, <<>>)]
       \/ \E s \in StartDates : \E e \in EndDates :
             proc = [p \in {1} |-> [Fresh("liked", NoPlaylist, <<>>) EXCEPT
                                      !.start_date = s, !.end_date = e]]

NextWalk ==
    \/ \E p \in Procs : WhoAmI(p)
    \/ \E p \in Procs : FetchPage(p)
    \/ \E p \in Procs : ListPage(p)
    \/ \E p \in Procs : FindPage(p)
    \/ \E p \in Procs : Create(p)
    \/ \E p \in Procs : ReadPage(p)
    \/ \E p \in Procs : Replace(p)
    \/ \E p \in Procs : Add(p)
    \/ \E p \in Procs : LikedPage(p)
    \/ \E p \in Procs : Fail(p)

SpecWalk == InitWalk /\ [][NextWalk]_vars

(***************************************************************************)
(* Properties                                                              *)
(***************************************************************************)
AllWellFormed(s) == \A a \in 1..Len(s) : WellFormed(s[a].added_at)

\* the entries of a listing that lie in the window of the clock `now`
AtOrAfterCutoff(e) ==
    /\ WellFormed(e.added_at)
    /\ LET c == CutoffOf(now, MONTHS_BACK)
           t == ParseAddedAt(e.added_at)
       IN  t > c[1] \/ (t = c[1] /\ c[2] = 0)
Window(s) == SelectSeq(s, AtOrAfterCutoff)

\* C5 (window correctness): when fetch_liked_tracks returns, its result is
\* the ids of exactly the entries with added_at >= cutoff, an entry at the
\* cutoff included, in the order of the listing, wherever the first older
\* entry lies; on an empty library the one page request it makes returns the
\* empty window and raises nothing.
C5_WindowCorrect ==
    \A p \in Procs :
        proc[p].entry = "fetch" =>
            /\ proc[p].pc = "done" => proc[p].results = IdsOf(Window(saved))
            /\ (saved = <<>> /\ proc[p].reqs > 0) =>
                   /\ proc[p].pc = "done"
                   /\ proc[p].results = <<>>
                   /\ proc[p].reqs = 1

\* C5 witness: a first page served in full whose first entry is at the cutoff
\* to the second and whose second entry is one second older: the reader
\* returned the first alone.
C5_Witness ==
    /\ proc[1].entry = "fetch" /\ proc[1].pc = "done"
    /\ srvCap = ServerFull /\ now[2] = 0
    /\ Len(saved) = 2
    /\ saved[1].added_at = AtCutoff /\ saved[2].added_at = JustOld
    /\ proc[1].results = <<saved[1].id>>
    /\ proc[1].reqs = 1

\* the number of items of a full page of the saved-track listing
SavedPageSize == Min(SavedLimit, srvCap)

\* C6 (early-stop bound): over a newest-first listing whose first k entries
\* are the ones in the window, the reader makes at most ceil(k/page_size)+1
\* page requests, page_size being the number of items of a full page, and
\* makes no page request once it has seen an entry older than the cutoff.
C6_EarlyStop ==
    \A p \in Procs :
        (proc[p].entry = "fetch" /\ AllWellFormed(saved)) =>
            /\ proc[p].reqs <= CeilDiv(Len(Window(saved)), SavedPageSize) + 1
            /\ ~proc[p].late

\* C6 witness: 500 entries, the first 30 in the window, pages of 30: the
\* reader returned the 30 after ceil(30/30)+1 = 2 requests.
C6_Witness ==
    /\ proc[1].entry = "fetch" /\ proc[1].pc = "done"
    /\ Len(saved) = 500 /\ srvCap = 30
    /\ Len(proc[1].results) = 30
    /\ proc[1].reqs = 2

Completed(outcome) == outcome \in {"uptodate", "updated"}
IsPrefix(s, t) == Len(s) <= Len(t) /\ s = SubSeq(t, 1, Len(s))

\* C2 (idempotence): a call of update_playlist_if_needed that follows a
\* completed call on the same playlist with the same desired list issues no
\* replace and no append call, and ends reporting that nothing is to change.
C2_Idempotent ==
    \A p \in Procs :
        (/\ proc[p].entry = "update"
         /\ proc[p].runs >= 2
         /\ Completed(proc[p].prev[proc[p].runs - 1].outcome)) =>
            /\ proc[p].calls = <<>>
            /\ proc[p].pc \notin {"replace", "add"}
            /\ proc[p].pc = "done" => proc[p].outcome = "uptodate"

\* C2 witness: a second call ended, after a first call that wrote 250 ids in
\* three calls.
C2_Witness ==
    /\ proc[1].entry = "update" /\ proc[1].runs = 2 /\ proc[1].pc = "done"
    /\ proc[1].prev[1].outcome = "updated"
    /\ proc[1].prev[1].ncalls = 3
    /\ Len(proc[1].new) = 250

\* C3 (set-equality short-circuit): a call entered while the set of track ids
\* of the playlist equals the set of desired ids, whatever the order and the
\* multiplicities, issues no replace and no append call and leaves the
\* playlist's items as they were.
C3_ShortCircuit ==
    \A p \in Procs :
        (/\ proc[p].entry = "update"
         /\ Range(TrackIdsOf(proc[p].before)) = Range(proc[p].new)) =>
            /\ proc[p].calls = <<>>
            /\ proc[p].pc \notin {"replace", "add"}
            /\ PlItems(proc[p].target) = proc[p].before
            /\ proc[p].pc = "done" => proc[p].outcome = "uptodate"

\* C3 witness: a call ended without a write on a playlist that held the
\* desired ids in another order or with a repeated id.
C3_Witness ==
    /\ proc[1].entry = "update" /\ proc[1].pc = "done"
    /\ proc[1].outcome = "uptodate"
    /\ proc[1].before # <<>>
    /\ TrackIdsOf(proc[1].before) # proc[1].new
    /\ Len(proc[1].before) = Len(proc[1].new)
    /\ PlItems(proc[1].target) = proc[1].before

\* the write calls an update of playlist `pl` to the list `new` is to issue
ExpectedCalls(pl, new) ==
    [j \in 1..(1 + CeilDiv(Max(Len(new) - Cap, 0), Cap)) |->
        [op  |-> IF j = 1 THEN "replace" ELSE "add",
         pl  |-> pl,
         ids |-> SubSeq(new, (j - 1) * Cap + 1, Min(j * Cap, Len(new)))]]

\* C4 (chunking): the write calls of an update are, in this order, one
\* replace call with desired[0:100] and then ceil(max(n-100,0)/100) append
\* calls with the following chunks of up to 100 ids; at every moment the
\* calls issued are a prefix of that sequence, and when the update has ended
\* the playlist's items are the desired list, in its order.
C4_Chunking ==
    \A p \in Procs :
        proc[p].entry = "update" =>
            /\ IsPrefix(proc[p].calls, ExpectedCalls(proc[p].target, proc[p].new))
            /\ (proc[p].pc = "done" /\ proc[p].outcome = "updated") =>
                   /\ proc[p].calls = ExpectedCalls(proc[p].target, proc[p].new)
                   /\ PlItems(proc[p].target) = proc[p].new

\* C4 witness: 250 desired ids written by a replace of 100, an append of 100
\* and an append of 50.
C4_Witness ==
    /\ proc[1].entry = "update" /\ proc[1].pc = "done"
    /\ proc[1].outcome = "updated"
    /\ Len(proc[1].new) = 250
    /\ Len(proc[1].calls) = 3
    /\ proc[1].calls[1].op = "replace" /\ Len(proc[1].calls[1].ids) = 100
    /\ proc[1].calls[3].op = "add" /\ Len(proc[1].calls[3].ids) = 50
    /\ PlItems(proc[1].target) = proc[1].new

\* a call that returned, every remote call of it having answered properly
Clean(x) == x.outcome = "returned" /\ ~x.glitched

\* C7 (locator uniqueness): the second of two find_or_create_playlist calls
\* for the same (user_id, name), nothing having changed in between, returns
\* the identifier the first returned and issues no create call.
C7_LocatorUnique ==
    \A p \in Procs :
        (/\ proc[p].entry = "find"
         /\ proc[p].runs >= 2
         /\ proc[p].pc = "done"
         /\ Clean(proc[p])
         /\ Clean(proc[p].prev[proc[p].runs - 1])) =>
            /\ proc[p].ret = proc[p].prev[proc[p].runs - 1].ret
            /\ proc[p].calls = <<>>

\* C7 witness: on an account of 120 playlists without the target, served in
\* full pages, the first call created it and the second returned it.
C7_Witness ==
    /\ proc[1].entry = "find" /\ proc[1].runs = 2 /\ proc[1].pc = "done"
    /\ Clean(proc[1]) /\ Clean(proc[1].prev[1])
    /\ srvCap = ServerFull /\ Len(pls) = 121
    /\ proc[1].prev[1].ncalls = 1
    /\ proc[1].ret = proc[1].prev[1].ret
    /\ proc[1].calls = <<>>

\* C1 (convergence): when a run of main has ended without a failed call and
\* without skipping, the set of track ids of the playlist it took as its
\* target equals the set of ids of the window it computed, which are the
\* saved tracks with added_at >= cutoff, whatever the playlist held before.
C1_Converges ==
    \A p \in Procs :
        (/\ proc[p].entry = "main"
         /\ proc[p].pc = "done"
         /\ Completed(proc[p].outcome)) =>
            /\ proc[p].results = IdsOf(Window(saved))
            /\ Range(TrackIdsOf(PlItems(proc[p].target))) = Range(proc[p].results)

\* C1 witness: a run ended having rewritten a playlist that held other
\* tracks than the window's.
C1_Witness ==
    /\ proc[1].entry = "main" /\ proc[1].pc = "done"
    /\ proc[1].outcome = "updated"
    /\ proc[1].before # <<>>
    /\ proc[1].results # <<>>
    /\ Range(proc[1].before) # Range(proc[1].results)
    /\ Len(proc[1].before) = Len(proc[1].results)
    /\ PlItems(proc[1].target) = proc[1].results

\* C8 (one playlist per name): no create call is issued while a playlist of
\* the owner with the target name exists, so over any sequence of runs, one
\* at a time, failed runs and empty listings included, at most one is created.
C8_NoDuplicateCreate ==
    /\ \A k \in 1..Len(creates) : ~creates[k]
    /\ Len(creates) <= 1

\* has a listing call of this or an earlier run of p answered with no items
\* in place of its page?
EverGlitched(p) ==
    proc[p].glitched \/ \E k \in 1..Len(proc[p].prev) : proc[p].prev[k].glitched

\* the same, as long as every listing call has answered with its page
C8_NoDuplicateCreateUnlessGlitch ==
    (\A p \in Procs : ~EverGlitched(p)) => C8_NoDuplicateCreate

C10_Skipped(p) ==
    /\ proc[p].pc = "done"
    /\ proc[p].outcome = "skipped"
    /\ proc[p].calls = <<>>
    /\ pls = proc[p].start

\* C10 (empty-listing guard): a run whose playlist listing returned no items
\* issues no create, no replace and no append call, ends with the warning
\* outcome and not with an error, and leaves the remote playlists as they
\* were when it started.
C10_EmptyListingGuard ==
    \A p \in Procs :
        (/\ proc[p].entry = "main"
         /\ proc[p].pc \notin {"whoami", "fetch", "list", "failed"}
         /\ proc[p].playlists = <<>>) => C10_Skipped(p)

\* C10 witness: the account has playlists, the listing call answered with no
\* items, and the run ended skipped.
C10_Witness ==
    /\ proc[1].entry = "main" /\ proc[1].pc = "done"
    /\ proc[1].outcome = "skipped"
    /\ proc[1].glitched
    /\ pls # <<>>
    /\ proc[1].results # <<>>

AllDone == \A p \in Procs : proc[p].pc = "done"
CreateCalls(calls) == {k \in 1..Len(calls) : calls[k].op = "create"}

\* C9 as claimed: once two interleaved runs have run to their end, at most one playlist
\* of the owner has the target name.
C9_AtMostOne ==
    AllDone => Cardinality(Named(Me, ROTATION_NAME)) <= 1

\* C9 as amended: a run issues at most one create call, so that at every
\* moment, and once both runs have ended, at most two playlists of the owner
\* have the target name.
C9_AtMostOnePerRun ==
    /\ \A p \in Procs : Cardinality(CreateCalls(proc[p].calls)) <= 1
    /\ Cardinality(Named(Me, ROTATION_NAME)) <= Cardinality(Procs)

\* C9 witness: both runs listed the playlists before either created, both
\* created, and both ended having written the window to their own playlist.
C9_Witness ==
    /\ \A p \in Procs : proc[p].pc = "done" /\ proc[p].outcome = "updated"
    /\ \A p \in Procs : ~proc[p].glitched
    /\ Cardinality(Named(Me, ROTATION_NAME)) = 2
    /\ proc[1].target # proc[2].target

\* did the account hold a playlist of the owner with the target name when
\* the run of p started?
TargetExisted(p) ==
    \E k \in 1..Len(proc[p].start) :
        /\ proc[p].start[k].name = ROTATION_NAME
        /\ proc[p].start[k].owner = Me

\* the ids of the entries of the window, in the order of the listing
WindowIds == [k \in 1..Len(Window(saved)) |-> Window(saved)[k].id]

\* a run ended having created one playlist and replaced its items by the
\* window, reporting the update
CreatedAndReplaced(p) ==
    /\ proc[p].outcome = "updated"
    /\ Len(proc[p].new) = Len(WindowIds)
    /\ Len(proc[p].calls) = 2
    /\ proc[p].calls[1].op = "create"
    /\ proc[p].calls[2] = [op |-> "replace", pl |-> proc[p].calls[1].pl,
                           ids |-> WindowIds]
    /\ PlItems(proc[p].calls[1].pl) = WindowIds

\* C11 as claimed (end-to-end scenario): whenever the window holds three
\* entries [A, B, C] and no playlist of the owner has the target name, a run
\* that ends without a failed call has issued one create call, then a
\* replace call with [A, B, C], and reports the update of 3 tracks.
C11_Scenario ==
    \A p \in Procs :
        (/\ proc[p].entry = "main"
         /\ Len(Window(saved)) = 3
         /\ ~TargetExisted(p)
         /\ proc[p].pc = "done") => CreatedAndReplaced(p)

\* C11 as amended: the same, for a run whose playlist listing came back with
\* at least one playlist and with none of the target name, whoever owns it.
C11_ScenarioListed ==
    \A p \in Procs :
        (/\ proc[p].entry = "main"
         /\ Len(Window(saved)) = 3
         /\ ~TargetExisted(p)
         /\ proc[p].playlists # <<>>
         /\ MainMatch(proc[p].playlists) = 0
         /\ proc[p].pc = "done") => CreatedAndReplaced(p)

\* C11 witness: on an account with a playlist of another name the run ended
\* having created the target and replaced its items by [3, 1, 2].
C11_Witness ==
    /\ proc[1].entry = "main" /\ proc[1].pc = "done"
    /\ ~TargetExisted(1)
    /\ proc[1].start # <<>>
    /\ srvCap = ServerFull
    /\ proc[1].outcome = "updated"
    /\ Len(proc[1].calls) = 2
    /\ proc[1].calls[1].op = "create"
    /\ proc[1].calls[2].op = "replace"
    /\ proc[1].calls[2].ids = <<3, 1, 2>>
    /\ PlItems(proc[1].target) = <<3, 1, 2>>

\* a call that failed after its replace call had succeeded
FailedMidWrite(x) == x.outcome = "failed" /\ x.ncalls >= 1

\* the call of p that follows a call that failed in the middle of its writes
AfterPartialWrite(p) ==
    /\ proc[p].entry = "update"
    /\ proc[p].runs >= 2
    /\ FailedMidWrite(proc[p].prev[proc[p].runs - 1])

NoRepeats(s) == \A a, b \in 1..Len(s) : s[a] = s[b] => a = b

\* C12 as claimed (self-healing): the call that follows a call that failed
\* after its replace and before its last append, the desired list being the
\* same, if it ends without a failure, has found the mismatch and issued the
\* whole replace-then-append sequence, and the playlist's id set is the
\* desired one; no other write call is issued.
C12_SelfHeals ==
    \A p \in Procs :
        AfterPartialWrite(p) =>
            /\ IsPrefix(proc[p].calls, ExpectedCalls(proc[p].target, proc[p].new))
            /\ proc[p].pc = "done" =>
                   /\ proc[p].outcome = "updated"
                   /\ proc[p].calls = ExpectedCalls(proc[p].target, proc[p].new)
                   /\ Range(TrackIdsOf(PlItems(proc[p].target))) = Range(proc[p].new)

\* C12 as amended: that call, if it ends without a failure, leaves the id
\* set of the playlist equal to the desired one; when the items left by the
\* failed call do not hold every desired id, which is so whenever the desired
\* ids are distinct, it issues the whole replace-then-append sequence and the
\* playlist then holds the desired list; no other write call is issued.
C12_SelfHealsSet ==
    \A p \in Procs :
        AfterPartialWrite(p) =>
            /\ IsPrefix(proc[p].calls, ExpectedCalls(proc[p].target, proc[p].new))
            /\ NoRepeats(proc[p].new) =>
                   Range(TrackIdsOf(proc[p].before)) # Range(proc[p].new)
            /\ proc[p].pc = "done" =>
                   /\ Range(TrackIdsOf(PlItems(proc[p].target))) = Range(proc[p].new)
                   /\ Range(TrackIdsOf(proc[p].before)) # Range(proc[p].new) =>
                          /\ proc[p].outcome = "updated"
                          /\ proc[p].calls = ExpectedCalls(proc[p].target, proc[p].new)
                          /\ PlItems(proc[p].target) = proc[p].new

\* C12 witness: the first call replaced 100 of 250 ids and failed at its
\* first append; the second call wrote the 250 in three calls.
C12_Witness ==
    /\ AfterPartialWrite(1)
    /\ proc[1].runs = 2
    /\ proc[1].prev[1].ncalls = 1
    /\ Len(proc[1].new) = 250
    /\ Len(proc[1].before) = 100
    /\ proc[1].pc = "done" /\ proc[1].outcome = "updated"
    /\ Len(proc[1].calls) = 3
    /\ PlItems(proc[1].target) = proc[1].new

\* the call of p follows a call after whose end, and only then, the playlist
\* was edited, and no edit has landed during the call of p
EditedBetweenRuns(p) ==
    /\ proc[p].entry = "update"
    /\ proc[p].runs >= 2
    /\ proc[p].prev[proc[p].runs - 1].outcome \in {"uptodate", "updated"}
    /\ proc[p].prev[proc[p].runs - 1].edits = <<"done">>
    /\ proc[p].edits = <<>>

\* C13 as claimed (manual edits overwritten): when the playlist has been
\* edited between two calls (a track added, removed, duplicated, the order
\* changed), the second call, once it has ended without a failure, leaves
\* the desired list as the items of the playlist.
C13_EditsOverwritten ==
    \A p \in Procs :
        (EditedBetweenRuns(p) /\ proc[p].pc = "done") =>
            PlItems(proc[p].target) = proc[p].new

\* C13 as amended: the second call leaves the id set of the playlist equal
\* to the desired id set; an edit that changed the id set is overwritten by
\* the desired list, an edit that left the id set as it was (a reordering, a
\* duplicate, the removal of a duplicate) stays, no write call being issued.
C13_EditsOverwrittenAsSets ==
    \A p \in Procs :
        (EditedBetweenRuns(p) /\ proc[p].pc = "done") =>
            /\ Range(TrackIdsOf(PlItems(proc[p].target))) = Range(proc[p].new)
            /\ Range(TrackIdsOf(proc[p].before)) # Range(proc[p].new) =>
                   /\ proc[p].outcome = "updated"
                   /\ PlItems(proc[p].target) = proc[p].new
            /\ Range(TrackIdsOf(proc[p].before)) = Range(proc[p].new) =>
                   /\ proc[p].outcome = "uptodate"
                   /\ proc[p].calls = <<>>
                   /\ PlItems(proc[p].target) = proc[p].before

\* C13 witness: the first call wrote the desired list, a track that is not
\* desired was then added to the playlist, and the second call wrote the
\* desired list again.
C13_Witness ==
    /\ EditedBetweenRuns(1) /\ proc[1].pc = "done"
    /\ proc[1].prev[1].outcome = "updated"
    /\ proc[1].new # <<>>
    /\ proc[1].before = Append(proc[1].new, MaxId + 1)
    /\ proc[1].outcome = "updated"
    /\ PlItems(proc[1].target) = proc[1].new

\* C14 (concurrent edit before the write): an edit of the playlist that
\* lands after the call has read the items and found them to differ from the
\* desired ids, and before its replace call, is overwritten: when the call
\* has ended without a failure it has issued the whole write sequence and
\* the items of the playlist are the desired list, nothing else.
C14_EditBeforeWriteLost ==
    \A p \in Procs :
        (/\ proc[p].entry = "update"
         /\ proc[p].edits = <<"replace">>
         /\ proc[p].pc = "done") =>
            /\ proc[p].outcome = "updated"
            /\ proc[p].calls = ExpectedCalls(proc[p].target, proc[p].new)
            /\ PlItems(proc[p].target) = proc[p].new

\* C14 witness: 101 desired ids; the edit landed between the last read and
\* the replace call; the call ended with the playlist holding the 101.
C14_Witness ==
    /\ proc[1].entry = "update" /\ proc[1].pc = "done"
    /\ proc[1].edits = <<"replace">>
    /\ Len(proc[1].new) = 101
    /\ Len(proc[1].calls) = 2
    /\ PlItems(proc[1].target) = proc[1].new

\* is playlist k of the account one of the owner with the target name?
OwnedMatch(k) == pls[k].name = ROTATION_NAME /\ pls[k].owner = Me

\* C15 (target selection): the playlist a run of main takes as its target,
\* reads and writes has the target name, letter for letter, and the current
\* user as its owner; a playlist of that name of another owner is never
\* taken, and of several playlists of the owner with that name the run takes
\* the first of the listing.
C15_TargetIsOwnedMatch ==
    \A p \in Procs :
        (proc[p].entry = "main" /\ proc[p].target # NoPlaylist) =>
            /\ OwnedMatch(PlIndex(proc[p].target))
            /\ \A k \in 1..Len(pls) :
                   (OwnedMatch(k) /\ ~proc[p].glitched) =>
                       PlIndex(proc[p].target) <= k

\* entry j of the saved tracks is unparsable and every entry before it lies
\* in the window: the reader, going through the listing, comes to it
ExaminedUnparsable(j) ==
    /\ ~WellFormed(saved[j].added_at)
    /\ \A k \in 1..(j - 1) : AtOrAfterCutoff(saved[k])

\* C16 (malformed timestamp is fatal): when the reader comes to an entry
\* whose added_at cannot be parsed, the run ends there with the parse error:
\* it collects neither that entry nor any after it, never goes on to list
\* the playlists, issues no create, replace or append call, and leaves the
\* playlists as they were.
C16_MalformedIsFatal ==
    \A p \in Procs : \A j \in 1..Len(saved) :
        (proc[p].entry = "main" /\ ExaminedUnparsable(j)) =>
            /\ proc[p].pc \in {"whoami", "fetch", "failed"}
            /\ Len(proc[p].results) < j
            /\ proc[p].calls = <<>>
            /\ pls = proc[p].start
            /\ proc[p].outcome = "valueerror" =>
                   proc[p].results = IdsOf(SubSeq(saved, 1, j - 1))
            /\ proc[p].offset < j

\* C16 witness: the second saved track, on the second page, is unparsable:
\* the run ended with the parse error having collected the first only, on an
\* account that has a playlist with the target name.
C16_Witness ==
    /\ proc[1].entry = "main"
    /\ proc[1].pc = "failed" /\ proc[1].outcome = "valueerror"
    /\ srvCap = 1
    /\ Len(saved) >= 2
    /\ ExaminedUnparsable(2)
    /\ proc[1].results = <<saved[1].id>>
    /\ proc[1].reqs = 2
    /\ Exists(Me, ROTATION_NAME)
    /\ proc[1].calls = <<>>

\* has the loop `walk` of p come to the end of its listing (and not left it
\* at a match, at an older entry, at a failed call)?
WalkedThrough(p, walk) ==
    CASE walk = "fetch" ->
            /\ proc[p].entry = "main"
            /\ proc[p].pc \in {"list", "find", "create", "read", "replace",
                               "add", "done"}
            /\ ~proc[p].seenOld
      [] walk = "list" ->
            /\ proc[p].entry = "main"
            /\ proc[p].pc \in {"find", "create", "read", "replace", "add", "done"}
            /\ ~proc[p].glitched
      [] walk = "find" ->
            /\ proc[p].pc = "create"
            /\ ~proc[p].glitched
      [] walk = "read" ->
            /\ proc[p].pc \in {"replace", "add"}
      [] walk = "liked" ->
            /\ proc[p].entry = "liked"
            /\ proc[p].pc = "done"
            /\ ~proc[p].seenOld

\* the length of the listing the loop `walk` of p walks
ListingLen(p, walk) ==
    CASE walk \in {"fetch", "liked"} -> Len(saved)
      [] walk \in {"list", "find"}   -> Len(proc[p].start)
      [] walk = "read"               -> Len(proc[p].before)

\* the loop `walk` of p has examined the items of its listing in their
\* order, none left out and none twice, and all of them once it has come to
\* the end of the listing
VisitsEachOnce(p, walk) ==
    /\ proc[p].seen[walk] = Iota(Len(proc[p].seen[walk]))
    /\ WalkedThrough(p, walk) => Len(proc[p].seen[walk]) = ListingLen(p, walk)

\* C17 (offsets advance by the items returned): on a remote that serves
\* short pages every loop that walks a listing examines every item once and
\* once only: the saved-track walk, the two walks of the playlist listing,
\* the walk of the playlist's items and the search script's saved-track walk.
C17_EveryItemOnce ==
    \A p \in Procs : \A walk \in Walks : VisitsEachOnce(p, walk)

\* the same of the three loops that add len(items) to their offset
C17_ByItemsReturned ==
    \A p \in Procs : \A walk \in {"fetch", "list", "read"} : VisitsEachOnce(p, walk)

\* C18 (per-call cap): every replace call and every append call of
\* update_playlist_if_needed carries at most 100 ids, whatever the length of
\* the desired list (0, 100 and the other multiples of 100 included), and no
\* append call carries no id.
C18_PerCallCap ==
    \A p \in Procs :
        proc[p].entry = "update" =>
            \A k \in 1..Len(proc[p].calls) :
                /\ proc[p].calls[k].op \in {"replace", "add"}
                /\ Len(proc[p].calls[k].ids) <= Cap
                /\ proc[p].calls[k].op = "add" => proc[p].calls[k].ids # <<>>

\* C18 witness: 200 desired ids written by a replace of 100 and one append
\* of 100, and no third call.
C18_Witness ==
    /\ proc[1].entry = "update" /\ proc[1].pc = "done"
    /\ proc[1].outcome = "updated"
    /\ Len(proc[1].new) = 200
    /\ Len(proc[1].calls) = 2
    /\ Len(proc[1].calls[1].ids) = Cap
    /\ proc[1].calls[2].op = "add" /\ Len(proc[1].calls[2].ids) = Cap

\* C20 (prefix invariant of the write phase): once the replace call of an
\* update has succeeded, and also after a later append has failed, the items
\* of the playlist are a prefix of the desired list, of a length that is a
\* multiple of 100 or the length of the whole list: no id that is not
\* desired, no desired id out of its place.  (Nobody else writes.)
C20_PrefixInvariant ==
    \A p \in Procs :
        (proc[p].entry = "update" /\ proc[p].calls # <<>>) =>
            LET items == PlItems(proc[p].target)
            IN  /\ IsPrefix(items, proc[p].new)
                /\ Len(items) % Cap = 0 \/ Len(items) = Len(proc[p].new)
                /\ Len(items) = Min(Len(proc[p].calls) * Cap, Len(proc[p].new))

\* C20 witness: of 250 desired ids the replace and the first append went
\* through and the second append failed: the playlist holds the first 200.
C20_Witness ==
    /\ proc[1].entry = "update" /\ proc[1].pc = "failed"
    /\ Len(proc[1].new) = 250
    /\ Len(proc[1].calls) = 2
    /\ PlItems(proc[1].target) = SubSeq(proc[1].new, 1, 200)

Ended(p) == proc[p].pc \in {"done", "failed"}

\* offsets a page request of p can be made at: within the listing for the
\* loops that add len(items), less than one nominal page past it for
\* find_or_create_playlist (lines 65-67)
OffsetsBounded(p) ==
    /\ proc[p].pc = "fetch" => /\ proc[p].offset <= Len(saved)
                               /\ proc[p].reqs <= Len(saved)
    /\ proc[p].pc = "list" => proc[p].offset <= Len(pls)
    /\ proc[p].pc = "find" => proc[p].offset < Max(Len(pls), 1) + FindAdvance
    /\ proc[p].pc = "read" => proc[p].offset <= Len(PlItems(proc[p].target))

\* a page request that does not end its loop moves the offset forward
OffsetAdvances(p) ==
    (/\ proc[p].pc \in {"fetch", "list", "find", "read"}
     /\ proc'[p].pc = proc[p].pc) => proc'[p].offset > proc[p].offset

\* a run that has ended at a failed call takes no further step
NothingAfterFailure(p) == proc[p].pc = "failed" => proc'[p] = proc[p]

\* C19 (termination): a run of main over finite listings comes to its end:
\* completed (up to date or updated), skipped with the warning, or aborted at
\* its first failed call, after which it makes no call; and each of its four
\* loops makes finitely many page requests, every request that does not end
\* the loop being made at a larger offset, and the offsets being bounded.
C19_Terminates ==
    /\ <>(\A p \in Procs : Ended(p))
    /\ [](\A p \in Procs :
            /\ OffsetsBounded(p)
            /\ proc[p].outcome \in {"failed", "valueerror"} <=> proc[p].pc = "failed"
            /\ proc[p].pc = "done" =>
                   proc[p].outcome \in {"uptodate", "updated", "skipped"})
    /\ [][\A p \in Procs : OffsetAdvances(p) /\ NothingAfterFailure(p)]_vars

\* C19 witness: a run that had to go through the playlist listing twice, 51
\* playlists in pages of 30, and through 101 saved tracks, ended having
\* created the playlist and written the 101 in two calls.
C19_Witness ==
    /\ proc[1].entry = "main" /\ proc[1].pc = "done"
    /\ proc[1].outcome = "updated"
    /\ srvCap = 30
    /\ Len(proc[1].playlists) = 51
    /\ Len(proc[1].results) = 101
    /\ Len(proc[1].calls) = 3
    /\ proc[1].calls[1].op = "create"
====
